---- MODULE Spec2Model ----
(***************************************************************************)
(* PRECOG-Edge: per-frame pipeline                                         *)
(*   detections -> StateEstimator.update -> TrajectoryPredictor            *)
(*              -> SafetyMonitor.check_all -> danger flag -> robot         *)
(*                                                                         *)
(* Numbers.  The program computes in IEEE doubles.  The model computes in  *)
(* fixed point: a position, velocity or covariance entry v is held as the  *)
(* integer v * Scale (tenths of a pixel), a Kalman gain as the integer     *)
(* gain * GainScale, and a division rounds down.  Comparisons of two       *)
(* Euclidean distances are made on the squared distances, which is the     *)
(* same order on non-negative numbers.  NaN is one extra value that every  *)
(* arithmetic operation propagates and every comparison answers FALSE to.  *)
(*                                                                         *)
(* Indices.  Python lists are 0-based, sequences here are 1-based; the     *)
(* "no track" value best_tidx = -1 of the source is 0 here.                *)
(***************************************************************************)
EXTENDS Integers, Naturals, Sequences, FiniteSets, TLC

\* ---------------------------------------------------------------------------
\* Fixed-point resolution and bounds of the exploration
\* ---------------------------------------------------------------------------
Scale      == 10          \* units per pixel
GainScale  == 1000        \* units per 1.0 of Kalman gain / severity
MaxFrames  == 4           \* Spec: frames of the main loop
MaxObs     == 4           \* Spec: observations fed in one run
MaxResets  == 1           \* Spec: presses of the R key in one run
LongFrames == 12          \* SpecLong: frames of the main loop
LongObs    == 2           \* SpecLong: observations fed in one run
CfgFrames  == 2           \* SpecConfig: frames of the main loop
MaxPts     == 4           \* SpecSafety: points of a forecast given to check_track
MaxMap     == 3           \* SpecSafety: tracks of a mapping given to check_all
MaxCalls   == 9           \* SpecPredictor: calls of update_and_predict
KalmanCalls == 6          \* SpecKalman: calls of predict and update
EstCalls   == 3           \* SpecEstimator: calls of StateEstimator.update
HORIZON    == 3           \* forecast horizon (main.py:22 sets 40)
NaN        == 0 - 1000000000   \* stands for the float NaN; no number of a run comes near it

\* ---------------------------------------------------------------------------
\* Program constants
\* ---------------------------------------------------------------------------
ZONE_RADIUS  == 120   \* main.py:23
ROBOT_SPEED  == 3     \* main.py:24
MAX_DISTANCE == 80    \* main.py:157  StateEstimator(max_distance=80.0)
HISTORY_LEN  == 8     \* main.py:188  TrajectoryPredictor(history_len=8, ...)
MAX_A        == 2     \* predictor.py:71
W_FRAME      == 640   \* main.py:153
H_FRAME      == 480   \* main.py:152
ARM_W        == 80    \* main.py:207  robot_x + 80
ROBOT_START  == 20    \* main.py:161
Q_NOISE      == 1     \* state_estimator.py:39
R_NOISE      == 10    \* state_estimator.py:43
P_INIT       == 500   \* state_estimator.py:48
MAX_MISSED   == 10    \* state_estimator.py:53
FALLBACK_WH  == 40    \* state_estimator.py:166
SIZE_LIMIT   == 9999  \* state_estimator.py:167

\* ---------------------------------------------------------------------------
\* Float arithmetic in fixed point
\* ---------------------------------------------------------------------------
IsNaN(a) == a = NaN

FAdd(a, b) == IF IsNaN(a) \/ IsNaN(b) THEN NaN ELSE a + b

FSub(a, b) == IF IsNaN(a) \/ IsNaN(b) THEN NaN ELSE a - b

\* gain * a, gain held in units of 1/GainScale
FGain(gain, a) == IF IsNaN(a) THEN NaN ELSE (gain * a) \div GainScale

Abs(a) == IF a < 0 THEN -a ELSE a

Max(a, b) == IF a >= b THEN a ELSE b

\* squared Euclidean length; NaN if a component is NaN
Hypot2(dx, dy) == IF IsNaN(dx) \/ IsNaN(dy) THEN NaN ELSE dx * dx + dy * dy

\* a < b on floats: FALSE when either side is NaN
FLt(a, b) == ~IsNaN(a) /\ ~IsNaN(b) /\ a < b

\* hypot(dx, dy) < lim for a limit whose square is too large to hold
HypotLt(dx, dy, lim) ==
    IF IsNaN(dx) \/ IsNaN(dy) THEN FALSE
    ELSE IF Abs(dx) >= lim \/ Abs(dy) >= lim THEN FALSE
    ELSE IF Abs(dx) + Abs(dy) < lim THEN TRUE
    ELSE dx * dx + dy * dy < lim * lim

RECURSIVE SqrtSearch(_, _, _)
\* largest k in lo..hi with k*k <= n   (lo*lo <= n < (hi+1)*(hi+1))
SqrtSearch(n, lo, hi) ==
    IF lo >= hi THEN lo
    ELSE LET mid == (lo + hi + 1) \div 2
         IN  IF mid * mid <= n THEN SqrtSearch(n, mid, hi)
                               ELSE SqrtSearch(n, lo, mid - 1)

\* floor of the square root
ISqrt(n) == IF IsNaN(n) THEN NaN ELSE SqrtSearch(n, 0, 46340)

\* Python round(): nearest integer, ties to the even one; v in units of 1/Scale
Round(v) ==
    LET q == v \div Scale
        r == v % Scale
    IN  IF 2 * r < Scale THEN q
        ELSE IF 2 * r > Scale THEN q + 1
        ELSE IF q % 2 = 0 THEN q ELSE q + 1

\* Python int(): truncation toward zero; v in units of 1/Scale
Trunc(v) == IF v >= 0 THEN v \div Scale ELSE -((-v) \div Scale)

\* ---------------------------------------------------------------------------
\* ObjectKalman  (state_estimator.py)
\*   F couples x with vx and y with vy only, H reads x and y, R and the first
\*   P are multiples of the identity: the x block and the y block of P stay
\*   equal and uncoupled, so P is held as the three entries of one block,
\*   pxx pxv pvv, and S = (pxx + r) * I.
\* ---------------------------------------------------------------------------
ObjectKalman_init(cx, cy) ==
    [x |-> cx, y |-> cy, vx |-> 0, vy |-> 0,
     pxx |-> P_INIT * Scale, pxv |-> 0, pvv |-> P_INIT * Scale,
     age |-> 0, missed |-> 0]

ObjectKalman_predict(t) ==
    [t EXCEPT !.x   = FAdd(t.x, t.vx),
              !.y   = FAdd(t.y, t.vy),
              !.pxx = t.pxx + 2 * t.pxv + t.pvv + Q_NOISE * Scale,
              !.pxv = t.pxv + t.pvv,
              !.pvv = t.pvv + Q_NOISE * Scale,
              !.missed = t.missed + 1,
              !.age    = t.age + 1]

\* mutant: the correction leaves the missed count as predict set it
ObjectKalman_update_keeps_missed(t, cx, cy) ==
    LET S  == t.pxx + R_NOISE * Scale
        K0 == (t.pxx * GainScale) \div S
        K1 == (t.pxv * GainScale) \div S
        yx == FSub(cx, t.x)
        yy == FSub(cy, t.y)
    IN  [t EXCEPT !.x   = FAdd(t.x,  FGain(K0, yx)),
                  !.y   = FAdd(t.y,  FGain(K0, yy)),
                  !.vx  = FAdd(t.vx, FGain(K1, yx)),
                  !.vy  = FAdd(t.vy, FGain(K1, yy)),
                  !.pxx = t.pxx - (K0 * t.pxx) \div GainScale,
                  !.pxv = t.pxv - (K0 * t.pxv) \div GainScale,
                  !.pvv = t.pvv - (K1 * t.pxv) \div GainScale]

ObjectKalman_update(t, cx, cy) ==
    LET S  == t.pxx + R_NOISE * Scale
        K0 == (t.pxx * GainScale) \div S
        K1 == (t.pxv * GainScale) \div S
        yx == FSub(cx, t.x)
        yy == FSub(cy, t.y)
    IN  [t EXCEPT !.x   = FAdd(t.x,  FGain(K0, yx)),
                  !.y   = FAdd(t.y,  FGain(K0, yy)),
                  !.vx  = FAdd(t.vx, FGain(K1, yx)),
                  !.vy  = FAdd(t.vy, FGain(K1, yy)),
                  !.pxx = t.pxx - (K0 * t.pxx) \div GainScale,
                  !.pxv = t.pxv - (K0 * t.pxv) \div GainScale,
                  !.pvv = t.pvv - (K1 * t.pxv) \div GainScale,
                  !.missed = 0]

speed(t) == ISqrt(Hypot2(t.vx, t.vy))

\* mutant: prunes one frame late
stale_late(t) == t.missed > MAX_MISSED

stale(t) == t.missed >= MAX_MISSED

\* ---------------------------------------------------------------------------
\* StateEstimator.update  (state_estimator.py:110-186)
\*   a detection is a record [cx, cy, w, h], cx and cy in units of 1/Scale
\* ---------------------------------------------------------------------------
RECURSIVE NearestTrack_any(_, _, _, _, _, _, _)
\* mutant: tracks already matched in the frame are not skipped
NearestTrack_any(trks, matched, cx, cy, ti, best_d2, best_tidx) ==
    IF ti > Len(trks) THEN best_tidx
    ELSE LET d2 == Hypot2(FSub(cx, trks[ti].x), FSub(cy, trks[ti].y))
         IN  IF FLt(d2, best_d2)
             THEN NearestTrack_any(trks, matched, cx, cy, ti + 1, d2, ti)
             ELSE NearestTrack_any(trks, matched, cx, cy, ti + 1, best_d2, best_tidx)

RECURSIVE NearestTrack(_, _, _, _, _, _, _)
\* lines 129-138: the inner loop over the tracks, from index ti on;
\* best_d2 is best_dist squared
NearestTrack(trks, matched, cx, cy, ti, best_d2, best_tidx) ==
    IF ti > Len(trks) THEN best_tidx
    ELSE IF ti \in matched
         THEN NearestTrack(trks, matched, cx, cy, ti + 1, best_d2, best_tidx)
    ELSE LET d2 == Hypot2(FSub(cx, trks[ti].x), FSub(cy, trks[ti].y))
         IN  IF FLt(d2, best_d2)
             THEN NearestTrack(trks, matched, cx, cy, ti + 1, d2, ti)
             ELSE NearestTrack(trks, matched, cx, cy, ti + 1, best_d2, best_tidx)

RECURSIVE Associate(_, _, _, _, _, _)
\* lines 125-143: the loop over the detections, from index di on.
\* assoc[di] is best_tidx of detection di (0: none): matched_det_idx is the
\* set of di with assoc[di] > 0, matched_track_idx the set of those assoc[di]
Associate(trks, dets, max_distance, di, matched, assoc) ==
    IF di > Len(dets) THEN [tracks |-> trks, assoc |-> assoc]
    ELSE LET best == NearestTrack(trks, matched, dets[di].cx, dets[di].cy, 1,
                                  max_distance * max_distance, 0)
         IN  IF best > 0
             THEN Associate([i \in 1..Len(trks) |->
                                IF i = best
                                THEN ObjectKalman_update(trks[i], dets[di].cx, dets[di].cy)
                                ELSE trks[i]],
                            dets, max_distance, di + 1, matched \cup {best},
                            Append(assoc, best))
             ELSE Associate(trks, dets, max_distance, di + 1, matched, Append(assoc, 0))

RECURSIVE Birth_same_id(_, _, _, _, _, _)
\* mutant: _next_id is not advanced
Birth_same_id(trks, ids, nid, dets, assoc, di) ==
    IF di > Len(dets) THEN [tracks |-> trks, track_ids |-> ids, next_id |-> nid]
    ELSE IF assoc[di] = 0
         THEN Birth_same_id(Append(trks, ObjectKalman_init(dets[di].cx, dets[di].cy)),
                            Append(ids, nid), nid, dets, assoc, di + 1)
         ELSE Birth_same_id(trks, ids, nid, dets, assoc, di + 1)

RECURSIVE Birth(_, _, _, _, _, _)
\* lines 146-150
Birth(trks, ids, nid, dets, assoc, di) ==
    IF di > Len(dets) THEN [tracks |-> trks, track_ids |-> ids, next_id |-> nid]
    ELSE IF assoc[di] = 0
         THEN Birth(Append(trks, ObjectKalman_init(dets[di].cx, dets[di].cy)),
                    Append(ids, nid), nid + 1, dets, assoc, di + 1)
         ELSE Birth(trks, ids, nid, dets, assoc, di + 1)

\* lines 153-155: the indices of the tracks kept, in order
Alive(trks) == SelectSeq([i \in 1..Len(trks) |-> i], LAMBDA i : ~stale(trks[i]))

RECURSIVE DetMap(_, _, _)
\* line 158: the dict, as the sequence of its items in iteration order: a key
\* seen again keeps its place and takes the later value
DetMap(dets, di, items) ==
    IF di > Len(dets) THEN items
    ELSE LET key == <<Round(dets[di].cx), Round(dets[di].cy)>>
             val == <<dets[di].w, dets[di].h>>
             at  == {i \in 1..Len(items) : items[i].key = key}
         IN  IF at = {}
             THEN DetMap(dets, di + 1, Append(items, [key |-> key, val |-> val]))
             ELSE DetMap(dets, di + 1,
                         [i \in 1..Len(items) |->
                             IF i \in at THEN [key |-> key, val |-> val] ELSE items[i]])

RECURSIVE ClosestSize(_, _, _, _, _, _)
\* lines 166-172; best_d2 = -1 stands for the first best_d = 9999
ClosestSize(px, py, items, i, best_d2, best_wh) ==
    IF i > Len(items) THEN best_wh
    ELSE LET dx == FSub(px, items[i].key[1] * Scale)
             dy == FSub(py, items[i].key[2] * Scale)
             closer == IF best_d2 < 0 THEN HypotLt(dx, dy, SIZE_LIMIT * Scale)
                       ELSE FLt(Hypot2(dx, dy), best_d2)
         IN  IF closer
             THEN ClosestSize(px, py, items, i + 1, Hypot2(dx, dy), items[i].val)
             ELSE ClosestSize(px, py, items, i + 1, best_d2, best_wh)

\* lines 161-184
Snapshot(trks, ids, dets) ==
    LET det_map == DetMap(dets, 1, <<>>)
    IN  [i \in 1..Len(trks) |->
            LET wh == ClosestSize(trks[i].x, trks[i].y, det_map, 1, -1,
                                  <<FALLBACK_WH, FALLBACK_WH>>)
            IN  [id |-> ids[i], cx |-> trks[i].x, cy |-> trks[i].y,
                 vx |-> trks[i].vx, vy |-> trks[i].vy, speed |-> speed(trks[i]),
                 w |-> wh[1], h |-> wh[2], age |-> trks[i].age]]

\* the whole call: the estimator after it, the association it made and the
\* list it returns
StateEstimator_update(trks, ids, nid, max_distance, dets) ==
    LET predicted == [i \in 1..Len(trks) |-> ObjectKalman_predict(trks[i])]
        matched   == Associate(predicted, dets, max_distance, 1, {}, <<>>)
        born      == Birth(matched.tracks, ids, nid, dets, matched.assoc, 1)
        alive     == Alive(born.tracks)
        kept      == [i \in 1..Len(alive) |-> born.tracks[alive[i]]]
        kept_ids  == [i \in 1..Len(alive) |-> born.track_ids[alive[i]]]
    IN  [tracks |-> kept, track_ids |-> kept_ids, next_id |-> born.next_id,
         assoc |-> matched.assoc, states |-> Snapshot(kept, kept_ids, dets)]

\* ---------------------------------------------------------------------------
\* TrajectoryPredictor  (predictor.py)
\*   a predictor is a record [vx_hist, vy_hist] of two sequences
\* ---------------------------------------------------------------------------
TrajectoryPredictor_init == [vx_hist |-> <<>>, vy_hist |-> <<>>]

\* mutant: a deque without maxlen
DequeAppend_unbounded(q, v, maxlen) == Append(q, v)

\* deque(maxlen).append
DequeAppend(q, v, maxlen) ==
    IF Len(q) >= maxlen THEN Append(Tail(q), v) ELSE Append(q, v)

RECURSIVE SumSeq(_, _)
SumSeq(q, i) == IF i > Len(q) THEN 0 ELSE q[i] + SumSeq(q, i + 1)

\* np.diff
Diff(q) == [i \in 1..(Len(q) - 1) |-> q[i + 1] - q[i]]

\* mutant: the mean difference is not clipped
Accel_unclamped(q) == SumSeq(Diff(q), 1) \div (Len(q) - 1)

\* np.mean(np.diff(.)), then np.clip(., -MAX_A, MAX_A)    (lines 65-73)
Accel(q) ==
    LET a == SumSeq(Diff(q), 1) \div (Len(q) - 1)
    IN  IF a < -(MAX_A * Scale) THEN -(MAX_A * Scale)
        ELSE IF a > MAX_A * Scale THEN MAX_A * Scale
        ELSE a

\* predictor.py:19-26
predict_linear(cx, cy, vx, vy, hor) ==
    [t \in 1..hor |-> <<cx + vx * t, cy + vy * t>>]

\* lines 49-81: the predictor after the call and the points returned
update_and_predict(p, cx, cy, vx, vy, hor) ==
    LET vxh == DequeAppend(p.vx_hist, vx, HISTORY_LEN)
        vyh == DequeAppend(p.vy_hist, vy, HISTORY_LEN)
        ax  == Accel(vxh)
        ay  == Accel(vyh)
    IN  [pred |-> [vx_hist |-> vxh, vy_hist |-> vyh],
         pts  |-> IF Len(vxh) < 2
                  THEN predict_linear(cx, cy, vx, vy, hor)
                  ELSE [t \in 1..hor |->
                           <<cx + vx * t + (ax * t * t) \div 2,
                             cy + vy * t + (ay * t * t) \div 2>>]]

\* ---------------------------------------------------------------------------
\* SafetyMonitor  (safety.py)
\*   an event is a record [track_id, impact_frame, impact_point, severity];
\*   severity is held in units of 1/GainScale; None is NoEvent
\* ---------------------------------------------------------------------------
NoEvent == [track_id |-> -1, impact_frame |-> 0, impact_point |-> <<0, 0>>,
            severity |-> 0]

\* mutant: the edge of the zone counts as inside
InZone_closed(dist2, rad) == rad > 0 /\ ~IsNaN(dist2) /\ dist2 <= rad * rad

\* line 57: dist < self.radius, with dist2 the square of dist >= 0
InZone(dist2, rad) == rad > 0 /\ FLt(dist2, rad * rad)

\* line 59
Severity(dist2, rad) == Max(0, GainScale - (ISqrt(dist2) * GainScale) \div rad)

RECURSIVE check_track_from(_, _, _, _, _)
\* lines 55-66, from index i on
check_track_from(center, rad, tid, pts, i) ==
    IF i > Len(pts) THEN NoEvent
    ELSE LET d2 == Hypot2(FSub(pts[i][1], center[1]), FSub(pts[i][2], center[2]))
         IN  IF InZone(d2, rad)
             THEN [track_id |-> tid, impact_frame |-> i,
                   impact_point |-> <<Trunc(pts[i][1]), Trunc(pts[i][2])>>,
                   severity |-> Severity(d2, rad)]
             ELSE check_track_from(center, rad, tid, pts, i + 1)

check_track(center, rad, tid, pts) == check_track_from(center, rad, tid, pts, 1)

\* mutant: a sort that is not stable
SortInsert_unstable(sorted, e) ==
    LET before == {i \in 1..Len(sorted) : sorted[i].impact_frame < e.impact_frame}
        k == Cardinality(before)
    IN  SubSeq(sorted, 1, k) \o <<e>> \o SubSeq(sorted, k + 1, Len(sorted))

\* list.sort(key=impact_frame) is stable: an element goes behind every
\* element whose key is not larger
SortInsert(sorted, e) ==
    LET before == {i \in 1..Len(sorted) : sorted[i].impact_frame <= e.impact_frame}
        k == Cardinality(before)
    IN  SubSeq(sorted, 1, k) \o <<e>> \o SubSeq(sorted, k + 1, Len(sorted))

RECURSIVE SortEvents(_, _, _)
SortEvents(evs, i, sorted) ==
    IF i > Len(evs) THEN sorted
    ELSE SortEvents(evs, i + 1, SortInsert(sorted, evs[i]))

RECURSIVE CollectEvents(_, _, _, _, _)
\* lines 80-84; futures is the dict as the sequence of its items [tid, pts]
CollectEvents(center, rad, futures, i, evs) ==
    IF i > Len(futures) THEN evs
    ELSE LET ev == check_track(center, rad, futures[i].tid, futures[i].pts)
         IN  CollectEvents(center, rad, futures, i + 1,
                           IF ev # NoEvent THEN Append(evs, ev) ELSE evs)

\* lines 68-86
check_all(center, rad, futures) ==
    SortEvents(CollectEvents(center, rad, futures, 1, <<>>), 1, <<>>)

\* ---------------------------------------------------------------------------
\* State
\* ---------------------------------------------------------------------------
VARIABLES
    tracks,         \* StateEstimator.tracks: the ObjectKalman filters
    track_ids,      \* StateEstimator.track_ids, parallel to tracks
    next_id,        \* StateEstimator._next_id
    predictors,     \* main: dict id -> TrajectoryPredictor
    robot_x,        \* main
    robot_dir,      \* main
    zone_center,    \* SafetyMonitor.zone_center
    radius,         \* SafetyMonitor.radius
    horizon,        \* TrajectoryPredictor.horizon
    call,           \* the last operation called
    detections,     \* the last frame's detections (the last call's input)
    assoc,          \* the last frame's best_tidx per detection (0: none)
    states,         \* the last list returned by StateEstimator.update
    track_futures,  \* the last frame's dict tid -> forecast, as its items
    events,         \* the last list returned by check_all
    danger,         \* the last frame's danger flag
    robot_shown,    \* the robot_x handed to draw_robot in the last frame
    key,            \* the last frame's key
    frames,         \* frames processed (calls made)
    fed,            \* observations fed so far
    resets          \* R keys pressed so far

vars == <<tracks, track_ids, next_id, predictors, robot_x, robot_dir,
          zone_center, radius, horizon, call, detections, assoc, states,
          track_futures, events, danger, robot_shown, key, frames, fed, resets>>

\* ---------------------------------------------------------------------------
\* Inputs of the main loop
\* ---------------------------------------------------------------------------
\* a detection (cx, cy, w, h) of MotionTracker.detect: integers, in pixels
Det(cx, cy, w, h) == [cx |-> cx * Scale, cy |-> cy * Scale, w |-> w, h |-> h]

Obs == {Det(100, 240, 30, 50), Det(140, 240, 40, 60), Det(180, 240, 20, 20)}

DetLists == {<<>>} \cup {<<a>> : a \in Obs} \cup {<<a, b>> : a \in Obs, b \in Obs}

\* "none": no key, or M, which only toggles a window.  ESC and Q end the
\* loop: the run stops there.
Keys == {"none", "r"}

\* ---------------------------------------------------------------------------
\* main  (main.py:143-233)
\* ---------------------------------------------------------------------------
\* lines 185-192: every live track's predictor is made if missing and called
RunPredictors(preds, sts, hor) ==
    LET live == {sts[i].id : i \in 1..Len(sts)}
        at(tid) == CHOOSE i \in 1..Len(sts) : sts[i].id = tid
        calls == [i \in 1..Len(sts) |->
                    update_and_predict(IF sts[i].id \in DOMAIN preds
                                       THEN preds[sts[i].id]
                                       ELSE TrajectoryPredictor_init,
                                       sts[i].cx, sts[i].cy, sts[i].vx, sts[i].vy, hor)]
    IN  [predictors |-> [tid \in DOMAIN preds \cup live |->
                            IF tid \in live THEN calls[at(tid)].pred ELSE preds[tid]],
         track_futures |-> [i \in 1..Len(sts) |->
                            [tid |-> sts[i].id, pts |-> calls[i].pts]]]

\* mutant: no predictor is ever deleted
DropDead_none(preds, sts) == preds

\* lines 195-196
DropDead(preds, sts) ==
    LET live == {sts[i].id : i \in 1..Len(sts)}
    IN  [tid \in {k \in DOMAIN preds : k \in live} |-> preds[tid]]

\* mutant: the robot advances whatever the danger flag
RobotStep_always(x, dir, dgr) ==
    LET nx == x + ROBOT_SPEED * dir
    IN  [x |-> nx,
         dir |-> IF nx + ARM_W >= W_FRAME - 10 THEN -1
                 ELSE IF nx <= 10 THEN 1 ELSE dir]

\* lines 205-210
RobotStep(x, dir, dgr) ==
    IF dgr THEN [x |-> x, dir |-> dir]
    ELSE LET nx == x + ROBOT_SPEED * dir
         IN  [x |-> nx,
              dir |-> IF nx + ARM_W >= W_FRAME - 10 THEN -1
                      ELSE IF nx <= 10 THEN 1 ELSE dir]

\* lines 156-165: the objects main builds before the loop
MainInit ==
    /\ tracks = <<>>
    /\ track_ids = <<>>
    /\ next_id = 0
    /\ predictors = <<>>
    /\ robot_x = ROBOT_START
    /\ robot_dir = 1
    /\ call = "init"
    /\ detections = <<>>
    /\ assoc = <<>>
    /\ states = <<>>
    /\ track_futures = <<>>
    /\ events = <<>>
    /\ danger = FALSE
    /\ robot_shown = ROBOT_START
    /\ key = "none"
    /\ frames = 0
    /\ fed = 0
    /\ resets = 0

\* lines 154, 158, 188: the configuration main runs with
MainConfig ==
    /\ zone_center = <<(W_FRAME \div 2) * Scale, (H_FRAME \div 2) * Scale>>
    /\ radius = ZONE_RADIUS * Scale
    /\ horizon = HORIZON

Init == MainInit /\ MainConfig

\* one iteration of the loop, lines 171-233, with the frame's detections and
\* the key read at its end
FrameBody(dets, k) ==
    \E est \in {StateEstimator_update(tracks, track_ids, next_id,
                                      MAX_DISTANCE * Scale, dets)} :
    \E run \in {RunPredictors(predictors, est.states, horizon)} :
    \E evs \in {check_all(zone_center, radius, run.track_futures)} :
    \E robot \in {RobotStep(robot_x, robot_dir, Len(evs) > 0)} :
        /\ tracks' = est.tracks
        /\ track_ids' = est.track_ids
        /\ next_id' = est.next_id
        /\ call' = "frame"
        /\ detections' = dets
        /\ assoc' = est.assoc
        /\ states' = est.states
        /\ predictors' = DropDead(run.predictors, est.states)
        /\ track_futures' = run.track_futures
        /\ events' = evs
        /\ danger' = (Len(evs) > 0)
        /\ robot_shown' = robot.x
        /\ key' = k
        /\ robot_x' = IF k = "r" THEN ROBOT_START ELSE robot.x
        /\ robot_dir' = IF k = "r" THEN 1 ELSE robot.dir
        /\ frames' = frames + 1
        /\ fed' = fed + Len(dets)
        /\ resets' = IF k = "r" THEN resets + 1 ELSE resets
        /\ UNCHANGED <<zone_center, radius, horizon>>

\* a few frames, any detections, any key
Frame ==
    \E dets \in DetLists, k \in Keys :
        /\ frames < MaxFrames
        /\ fed + Len(dets) <= MaxObs
        /\ k = "r" => resets < MaxResets
        /\ FrameBody(dets, k)

Next == Frame

Spec == Init /\ [][Next]_vars

\* many frames, few detections: tracks live until they are pruned
LongFrame ==
    \E dets \in DetLists :
        /\ frames < LongFrames
        /\ fed + Len(dets) <= LongObs
        /\ FrameBody(dets, "none")

NextLong == LongFrame

SpecLong == Init /\ [][NextLong]_vars

\* ---------------------------------------------------------------------------
\* SafetyMonitor called on its own: one call of check_track or of check_all
\* with any forecasts, under the zone main configures
\* ---------------------------------------------------------------------------
Pt(x10, y10) == <<(x10 * Scale) \div 10, (y10 * Scale) \div 10>>

\* points in tenths of a pixel: 180 and 140 pixels from the centre, on the
\* edge (120), inside (100), the centre, and one with fractions
SafetyPts == {Pt(1400, 2400), Pt(1800, 2400), Pt(2000, 2400), Pt(2200, 2400),
              Pt(3200, 2400), Pt(3205, 1507)}

SeqsOver(S, n) == UNION {[1..k -> S] : k \in 0..n}

CallCheckTrack ==
    \E tid \in 0..1, pts \in SeqsOver(SafetyPts, MaxPts) :
        /\ call = "init"
        /\ \E ev \in {check_track(zone_center, radius, tid, pts)} :
               events' = IF ev = NoEvent THEN <<>> ELSE <<ev>>
        /\ track_futures' = <<[tid |-> tid, pts |-> pts]>>
        /\ call' = "check_track"
        /\ frames' = frames + 1
        /\ UNCHANGED <<tracks, track_ids, next_id, predictors, robot_x, robot_dir,
                       zone_center, radius, horizon, detections, assoc, states,
                       danger, robot_shown, key, fed, resets>>

\* forecasts of two points each, outside or inside
MapForecasts == [1..2 -> {Pt(1400, 2400), Pt(2200, 2400)}]

\* the dicts of at most MaxMap tracks: distinct keys in any iteration order
Mappings ==
    UNION {{m \in [1..n -> [tid : 0..(MaxMap - 1), pts : MapForecasts]] :
                \A i, j \in 1..n : m[i].tid = m[j].tid => i = j}
           : n \in 0..MaxMap}

CallCheckAll ==
    \E m \in Mappings :
        /\ call = "init"
        /\ events' = check_all(zone_center, radius, m)
        /\ track_futures' = m
        /\ call' = "check_all"
        /\ frames' = frames + 1
        /\ UNCHANGED <<tracks, track_ids, next_id, predictors, robot_x, robot_dir,
                       zone_center, radius, horizon, detections, assoc, states,
                       danger, robot_shown, key, fed, resets>>

NextSafety == CallCheckTrack \/ CallCheckAll

SpecSafety == Init /\ [][NextSafety]_vars

\* ---------------------------------------------------------------------------
\* TrajectoryPredictor called on its own: one predictor, called again and
\* again with any state
\* ---------------------------------------------------------------------------
\* (vx, vy) given to a call: differences of 0, 1.0 and 6.0 pixels a frame
Velocities == {<<0, 0>>, <<Scale, -7>>, <<6 * Scale, 25>>}

Positions == {<<100 * Scale, 240 * Scale>>, <<3205, 15>>}

PredictorInit ==
    /\ MainInit
    /\ zone_center = <<(W_FRAME \div 2) * Scale, (H_FRAME \div 2) * Scale>>
    /\ radius = ZONE_RADIUS * Scale
    /\ horizon \in {1, HORIZON}

CallPredict ==
    \E pos \in Positions, v \in Velocities :
        /\ frames < MaxCalls
        /\ \E r \in {update_and_predict(IF 0 \in DOMAIN predictors THEN predictors[0]
                                        ELSE TrajectoryPredictor_init,
                                        pos[1], pos[2], v[1], v[2], horizon)} :
               /\ predictors' = [tid \in {0} |-> r.pred]
               /\ track_futures' = <<[tid |-> 0, pts |-> r.pts]>>
        /\ states' = <<[id |-> 0, cx |-> pos[1], cy |-> pos[2],
                        vx |-> v[1], vy |-> v[2]]>>
        /\ call' = "update_and_predict"
        /\ frames' = frames + 1
        /\ UNCHANGED <<tracks, track_ids, next_id, robot_x, robot_dir,
                       zone_center, radius, horizon, detections, assoc,
                       events, danger, robot_shown, key, fed, resets>>

NextPredictor == CallPredict

SpecPredictor == PredictorInit /\ [][NextPredictor]_vars

\* ---------------------------------------------------------------------------
\* Configuration: SafetyMonitor(radius=...) and TrajectoryPredictor(horizon=...)
\* take whatever they are given (safety.py:35-39, predictor.py:42-47); main
\* hands them ZONE_RADIUS and HORIZON unchecked (main.py:158, 188)
\* ---------------------------------------------------------------------------
ConfigInit ==
    /\ MainInit
    /\ zone_center = <<(W_FRAME \div 2) * Scale, (H_FRAME \div 2) * Scale>>
    /\ radius \in {-(ZONE_RADIUS * Scale), 0, ZONE_RADIUS * Scale}
    /\ horizon \in {-1, 0, HORIZON}

CfgFrame ==
    \E dets \in DetLists :
        /\ frames < CfgFrames
        /\ FrameBody(dets, "none")

NextConfig == CfgFrame

SpecConfig == ConfigInit /\ [][NextConfig]_vars

\* ---------------------------------------------------------------------------
\* ObjectKalman called on its own: one filter, predict and then update with
\* any measurement, NaN included
\* ---------------------------------------------------------------------------
Measurements == {100 * Scale, 140 * Scale, NaN}

\* ObjectKalman(100, 240), nothing else built
KalmanInit ==
    /\ tracks = <<ObjectKalman_init(100 * Scale, 240 * Scale)>>
    /\ track_ids = <<>>
    /\ next_id = 0
    /\ predictors = <<>>
    /\ robot_x = ROBOT_START
    /\ robot_dir = 1
    /\ call = "new"
    /\ detections = <<>>
    /\ assoc = <<>>
    /\ states = <<>>
    /\ track_futures = <<>>
    /\ events = <<>>
    /\ danger = FALSE
    /\ robot_shown = ROBOT_START
    /\ key = "none"
    /\ frames = 0
    /\ fed = 0
    /\ resets = 0
    /\ MainConfig

KPredict ==
    /\ frames < KalmanCalls
    /\ call \in {"new", "predict", "update"}
    /\ tracks' = <<ObjectKalman_predict(tracks[1])>>
    /\ call' = "predict"
    /\ detections' = <<>>
    /\ frames' = frames + 1
    /\ UNCHANGED <<track_ids, next_id, predictors, robot_x, robot_dir,
                   zone_center, radius, horizon, assoc, states, track_futures,
                   events, danger, robot_shown, key, fed, resets>>

\* update follows predict, as in StateEstimator.update
KUpdate ==
    \E cx \in Measurements, cy \in Measurements :
        /\ frames < KalmanCalls
        /\ call = "predict"
        /\ tracks' = <<ObjectKalman_update(tracks[1], cx, cy)>>
        /\ call' = "update"
        /\ detections' = <<[cx |-> cx, cy |-> cy, w |-> 0, h |-> 0]>>
        /\ frames' = frames + 1
        /\ UNCHANGED <<track_ids, next_id, predictors, robot_x, robot_dir,
                       zone_center, radius, horizon, assoc, states, track_futures,
                       events, danger, robot_shown, key, fed, resets>>

NextKalman == KPredict \/ KUpdate

SpecKalman == KalmanInit /\ [][NextKalman]_vars

\* ---------------------------------------------------------------------------
\* StateEstimator called on its own: update(detections) with centres that are
\* floats, as its signature and ObjectKalman(cx: float, cy: float) take them
\* ---------------------------------------------------------------------------
\* centres at 100.4, 100.0 and 180.0 pixels (at Scale = 10), all on y = 240
FracObs == {[cx |-> 100 * Scale + 4, cy |-> 240 * Scale, w |-> 30, h |-> 50],
            [cx |-> 100 * Scale,     cy |-> 240 * Scale, w |-> 20, h |-> 20],
            [cx |-> 180 * Scale,     cy |-> 240 * Scale, w |-> 40, h |-> 60]}

FracDetLists ==
    {<<>>} \cup {<<a>> : a \in FracObs} \cup {<<a, b>> : a \in FracObs, b \in FracObs}

\* one call of StateEstimator.update (state_estimator.py:110-186)
CallUpdate ==
    \E dets \in FracDetLists :
        /\ frames < EstCalls
        /\ \E est \in {StateEstimator_update(tracks, track_ids, next_id,
                                             MAX_DISTANCE * Scale, dets)} :
               /\ tracks' = est.tracks
               /\ track_ids' = est.track_ids
               /\ next_id' = est.next_id
               /\ assoc' = est.assoc
               /\ states' = est.states
        /\ detections' = dets
        /\ call' = "estimator_update"
        /\ frames' = frames + 1
        /\ fed' = fed + Len(dets)
        /\ UNCHANGED <<predictors, robot_x, robot_dir, zone_center, radius,
                       horizon, track_futures, events, danger, robot_shown,
                       key, resets>>

NextEstimator == CallUpdate

SpecEstimator == Init /\ [][NextEstimator]_vars

\* ===========================================================================
\* Properties
\* ===========================================================================
Range(q) == {q[i] : i \in 1..Len(q)}

\* the step is a frame of the main loop
IsFrame == frames' = frames + 1 /\ call' = "frame"

\* track i of the estimator before the frame is matched in the frame
MatchedNow(i) == \E d \in 1..Len(assoc') : assoc'[d] = i

\* track i of the estimator before the frame is in the snapshot the frame
\* returns, at position j, with missed count n
Survives(i, j, n) ==
    /\ j \in 1..Len(track_ids')
    /\ track_ids'[j] = track_ids[i]
    /\ tracks'[j].missed = n
    /\ states'[j].id = track_ids[i]

\* the track of identifier id is gone after the frame
Gone(id) == id \notin Range(track_ids') /\ \A j \in 1..Len(states') : states'[j].id # id

\* --- C1 ---------------------------------------------------------------------
\* C1 as stated: a track not matched in a frame has its missed count raised by
\* exactly 1, stays in the returned snapshot while the count is at most 10,
\* and is removed exactly in the frame where the count reaches 11.
C1_Original ==
    [][IsFrame =>
        \A i \in 1..Len(tracks) :
            ~MatchedNow(i) =>
                LET n == tracks[i].missed + 1
                IN  /\ n <= 10 => \E j \in 1..Len(track_ids') : Survives(i, j, n)
                    /\ n >= 11 => Gone(track_ids[i])]_vars

\* C1 amended: a track not matched in a frame has its missed count raised by
\* exactly 1, stays in the returned snapshot while the count is at most 9, and
\* is removed exactly in the frame where the count reaches 10; no live track
\* ever holds a count above 9.
C1_Theorem ==
    [][IsFrame =>
        /\ \A i \in 1..Len(tracks) :
            ~MatchedNow(i) =>
                LET n == tracks[i].missed + 1
                IN  /\ n <= 9 => \E j \in 1..Len(track_ids') : Survives(i, j, n)
                    /\ n >= 10 => Gone(track_ids[i])
        /\ \A j \in 1..Len(tracks') : tracks'[j].missed <= 9]_vars

\* a track was born, missed ten frames in a row and has been removed
C1_Witness ==
    /\ call = "frame"
    /\ frames >= 11
    /\ \E id \in 0..(next_id - 1) : id \notin Range(track_ids)

\* --- C2 ---------------------------------------------------------------------
\* the detections of the frame left unmatched, in input order
Unmatched == SelectSeq([d \in 1..Len(assoc') |-> d], LAMBDA d : assoc'[d] = 0)

\* C2: every observation left unmatched creates exactly one new track in that
\* frame; the new tracks take the identifiers next_id, next_id + 1, ... in
\* observation input order, each greater than every identifier assigned
\* before; no identifier is held by two tracks, and none is assigned again
\* after its track was pruned.
C2_Theorem ==
    [][IsFrame =>
        LET n    == Len(Unmatched)
            old  == Len(track_ids') - n
        IN  /\ next_id' = next_id + n
            /\ old >= 0
            \* the tracks kept are old ones, in their order
            /\ \A j \in 1..old : track_ids'[j] \in Range(track_ids)
            \* the k-th unmatched observation is the track of identifier
            \* next_id + k - 1, a fresh filter at its centre
            /\ \A k \in 1..n :
                 /\ track_ids'[old + k] = next_id + k - 1
                 /\ tracks'[old + k] =
                        ObjectKalman_init(detections'[Unmatched[k]].cx,
                                          detections'[Unmatched[k]].cy)
            \* every identifier handed out so far is below next_id
            /\ \A j \in 1..Len(track_ids) : track_ids[j] < next_id
            \* no identifier twice
            /\ \A j1, j2 \in 1..Len(track_ids') :
                 track_ids'[j1] = track_ids'[j2] => j1 = j2]_vars

\* a track is born in a frame when an earlier track has been pruned
C2_Witness ==
    /\ call = "frame"
    /\ \E j \in 1..Len(tracks) :
         /\ tracks[j].age = 0
         /\ \E id \in 0..(track_ids[j] - 1) : id \notin Range(track_ids)

\* --- C3 ---------------------------------------------------------------------
\* point p lies strictly inside the zone
Inside(p) ==
    /\ radius > 0
    /\ (p[1] - zone_center[1]) * (p[1] - zone_center[1])
         + (p[2] - zone_center[2]) * (p[2] - zone_center[2]) < radius * radius

\* the distance of p to the zone centre, rounded down to a unit
DistOf(p) ==
    CHOOSE k \in 0..(40 * ZONE_RADIUS * Scale) :
        LET d2 == (p[1] - zone_center[1]) * (p[1] - zone_center[1])
                    + (p[2] - zone_center[2]) * (p[2] - zone_center[2])
        IN  k * k <= d2 /\ d2 < (k + 1) * (k + 1)

\* the forecast main's zone gives impact_frame 3 for: (100 + 40 t, 240)
ExampleForecast == <<Pt(1400, 2400), Pt(1800, 2400), Pt(2200, 2400)>>

\* C3: check_track returns an event for the first point of the forecast that
\* lies strictly inside the zone, with impact_frame that point's 1-based
\* index and severity max(0, 1 - distance/radius), which lies in [0, 1]; it
\* returns no event when no point lies strictly inside; a later point is
\* never reported.  With centre (320, 240) and radius 120 the forecast
\* (100 + 40 t, 240) gives impact_frame 3 at distance 100.
C3_Theorem ==
    call = "check_track" =>
        LET tid    == track_futures[1].tid
            pts    == track_futures[1].pts
            inside == {i \in 1..Len(pts) : Inside(pts[i])}
        IN  /\ inside = {} => events = <<>>
            /\ inside # {} =>
                 /\ Len(events) = 1
                 /\ events[1].track_id = tid
                 /\ events[1].impact_frame \in inside
                 /\ \A i \in inside : events[1].impact_frame <= i
                 /\ events[1].severity =
                        Max(0, GainScale
                                 - (DistOf(pts[events[1].impact_frame]) * GainScale)
                                     \div radius)
                 /\ events[1].severity >= 0
                 /\ events[1].severity <= GainScale
            /\ pts = ExampleForecast =>
                 /\ Len(events) = 1
                 /\ events[1].impact_frame = 3
                 /\ DistOf(pts[3]) = 100 * Scale
                 /\ events[1].severity = GainScale - (100 * GainScale) \div 120

\* a forecast that enters the zone at its third point, leaves it and is given
\* as the example with one more point outside
C3_Witness ==
    /\ call = "check_track"
    /\ track_futures[1].pts = Append(ExampleForecast, Pt(1400, 2400))
    /\ Len(events) = 1
    /\ events[1].impact_frame = 3

\* --- C4 ---------------------------------------------------------------------
\* the place of track tid in the mapping's iteration order
PlaceOf(tid) == CHOOSE i \in 1..Len(track_futures) : track_futures[i].tid = tid

\* C4: check_all returns at most one event per track, exactly for the tracks
\* whose check_track yields an event (and that event), ordered non-decreasing
\* by impact_frame; events of equal impact_frame keep the iteration order of
\* the input mapping.
C4_Theorem ==
    call = "check_all" =>
        /\ \A i, j \in 1..Len(events) :
             events[i].track_id = events[j].track_id => i = j
        /\ \A i \in 1..Len(track_futures) :
             (\E t \in 1..Len(track_futures[i].pts) : Inside(track_futures[i].pts[t]))
               <=> (\E e \in 1..Len(events) :
                        events[e].track_id = track_futures[i].tid)
        /\ \A e \in 1..Len(events) :
             \E i \in 1..Len(track_futures) :
                 /\ track_futures[i].tid = events[e].track_id
                 /\ events[e] = check_track(zone_center, radius,
                                            track_futures[i].tid, track_futures[i].pts)
        /\ \A i, j \in 1..Len(events) :
             i < j =>
                 /\ events[i].impact_frame <= events[j].impact_frame
                 /\ events[i].impact_frame = events[j].impact_frame =>
                        PlaceOf(events[i].track_id) < PlaceOf(events[j].track_id)

\* three tracks with events: the first of the mapping is hit last and comes
\* last, the other two tie and keep their order
C4_Witness ==
    /\ call = "check_all"
    /\ Len(events) = 3
    /\ events[3].track_id = track_futures[1].tid
    /\ events[1].track_id = track_futures[2].tid
    /\ events[2].track_id = track_futures[3].tid
    /\ events[1].impact_frame = events[2].impact_frame
    /\ events[2].impact_frame < events[3].impact_frame
    /\ track_futures[2].tid > track_futures[3].tid

\* --- C5 ---------------------------------------------------------------------
\* C5: in every frame of the main loop the danger flag is true exactly when
\* the forecast of at least one live track holds a point strictly inside the
\* protected zone, and the actuator step of the frame advances the robot
\* (by ROBOT_SPEED in its direction) exactly when the flag is false: under
\* danger the robot shown is where it was.  (The R key, read after the
\* actuator step, puts the robot back to its start whatever the flag.)
C5_Theorem ==
    [][IsFrame =>
        /\ Len(track_futures') = Len(track_ids')
        /\ \A i \in 1..Len(track_ids') : track_futures'[i].tid = track_ids'[i]
        /\ danger' \in BOOLEAN
        /\ danger' <=>
             \E i \in 1..Len(track_futures') :
                 \E t \in 1..Len(track_futures'[i].pts) :
                     LET p == track_futures'[i].pts[t]
                     IN  (p[1] - zone_center[1]) * (p[1] - zone_center[1])
                           + (p[2] - zone_center[2]) * (p[2] - zone_center[2])
                           < radius * radius
        /\ danger' => robot_shown' = robot_x
        /\ ~danger' => robot_shown' = robot_x + ROBOT_SPEED * robot_dir
        /\ key' # "r" => robot_x' = robot_shown'
        /\ robot_x' # robot_x => (~danger' \/ key' = "r")]_vars

\* a frame that forecasts an intrusion and holds the robot where the frames
\* before had moved it to
C5_Witness ==
    /\ call = "frame"
    /\ danger
    /\ Len(events) > 0
    /\ key = "none"
    /\ robot_x = robot_shown
    /\ robot_x > ROBOT_START
    /\ robot_x < ROBOT_START + ROBOT_SPEED * frames

\* --- C6 ---------------------------------------------------------------------
\* the acceleration of C6: the mean of the consecutive differences of the
\* stored history (their sum is last - first), clamped to [-2.0, 2.0]
MeanAccel(h) ==
    LET m == (h[Len(h)] - h[1]) \div (Len(h) - 1)
    IN  IF m > 2 * Scale THEN 2 * Scale ELSE IF m < -(2 * Scale) THEN -(2 * Scale) ELSE m

\* C6: update_and_predict returns exactly horizon points, for t = 1..horizon:
\* with fewer than 2 samples in the history after the append, point t is
\* (cx + vx t, cy + vy t); otherwise it is (cx + vx t + 0.5 ax t^2,
\* cy + vy t + 0.5 ay t^2) with ax, ay the clamped mean differences of the
\* stored histories, so that a constant history gives the linear forecast.
C6_Theorem ==
    call = "update_and_predict" =>
        LET s   == states[1]
            pts == track_futures[1].pts
            hx  == predictors[0].vx_hist
            hy  == predictors[0].vy_hist
        IN  /\ Len(pts) = horizon
            /\ DOMAIN pts = 1..horizon
            /\ Len(hx) < 2 =>
                 \A t \in 1..horizon : pts[t] = <<s.cx + s.vx * t, s.cy + s.vy * t>>
            /\ Len(hx) >= 2 =>
                 \A t \in 1..horizon :
                     pts[t] = <<s.cx + s.vx * t + (MeanAccel(hx) * t * t) \div 2,
                                s.cy + s.vy * t + (MeanAccel(hy) * t * t) \div 2>>
            /\ (Len(hx) >= 2 /\ \A i \in 1..Len(hx) : hx[i] = s.vx /\ hy[i] = s.vy) =>
                 \A t \in 1..horizon : pts[t] = <<s.cx + s.vx * t, s.cy + s.vy * t>>

\* a call on a history of several samples whose mean difference is clamped
\* on x and not on y
C6_Witness ==
    /\ call = "update_and_predict"
    /\ horizon = HORIZON
    /\ Len(predictors[0].vx_hist) = 3
    /\ predictors[0].vx_hist[3] - predictors[0].vx_hist[1] > 2 * 2 * Scale
    /\ predictors[0].vy_hist[3] - predictors[0].vy_hist[1] \in 1..(2 * 2 * Scale)
    /\ track_futures[1].pts[HORIZON][1] =
          states[1].cx + states[1].vx * HORIZON + (2 * Scale * HORIZON * HORIZON) \div 2

\* --- C7 ---------------------------------------------------------------------
\* C7 as stated: a configuration with a non-positive zone radius or a forecast
\* horizon <= 0 is rejected at startup, so that no frame is ever processed
\* under such a configuration.
C7_Claim == (radius <= 0 \/ horizon <= 0) => frames = 0

\* --- C8 ---------------------------------------------------------------------
\* C8 as stated: when ObjectKalman.update is called with degenerate (NaN)
\* inputs the update is skipped: the state and the covariance of the track
\* remain those that predict left.
C8_Claim ==
    [][(call' = "update" /\ (IsNaN(detections'[1].cx) \/ IsNaN(detections'[1].cy))) =>
          /\ tracks'[1].x = tracks[1].x
          /\ tracks'[1].y = tracks[1].y
          /\ tracks'[1].vx = tracks[1].vx
          /\ tracks'[1].vy = tracks[1].vy
          /\ tracks'[1].pxx = tracks[1].pxx
          /\ tracks'[1].pxv = tracks[1].pxv
          /\ tracks'[1].pvv = tracks[1].pvv]_vars

\* --- C9 ---------------------------------------------------------------------
\* C9: for every track that existed before the call and survives it, the
\* missed count after the call is 0 if and only if the track was matched in
\* the call; otherwise it is the count before plus 1.  With no observations
\* no track is matched and every surviving track's count grows by 1.
C9_Theorem ==
    [][IsFrame =>
        \A i \in 1..Len(tracks) : \A j \in 1..Len(tracks') :
            track_ids'[j] = track_ids[i] =>
                /\ tracks'[j].missed = 0 <=> MatchedNow(i)
                /\ ~MatchedNow(i) => tracks'[j].missed = tracks[i].missed + 1
                /\ detections' = <<>> => ~MatchedNow(i)]_vars

\* after a frame, one older track was matched and another was not
C9_Witness ==
    /\ call = "frame"
    /\ \E j1, j2 \in 1..Len(tracks) :
         /\ tracks[j1].age > 0 /\ tracks[j1].missed = 0
         /\ tracks[j2].age > 1 /\ tracks[j2].missed = 2

\* --- C10 --------------------------------------------------------------------
\* the squared distance from detection d of the frame to the predicted
\* position of track i
PredDist2(d, i) ==
    LET p == ObjectKalman_predict(tracks[i])
    IN  (detections'[d].cx - p.x) * (detections'[d].cx - p.x)
          + (detections'[d].cy - p.y) * (detections'[d].cy - p.y)

\* the tracks not matched by the detections before d
FreeAt(d) == (1..Len(tracks)) \ {assoc'[e] : e \in 1..(d - 1)}

\* C10: observations are processed in input order; each is matched to a track
\* nearest to it (by the distance from its centre to the predicted position)
\* among the tracks not yet matched in the frame, provided that distance is
\* strictly below max_distance, and stays unmatched otherwise.  No track is
\* matched (updated) more than once in a frame, no observation matches more
\* than one track, and a track born in the frame is never matched in it.
C10_Theorem ==
    [][IsFrame =>
        /\ Len(assoc') = Len(detections')
        /\ \A d \in 1..Len(detections') :
             /\ assoc'[d] \in 0..Len(tracks)
             /\ assoc'[d] # 0 =>
                  /\ assoc'[d] \in FreeAt(d)
                  /\ PredDist2(d, assoc'[d])
                       < (MAX_DISTANCE * Scale) * (MAX_DISTANCE * Scale)
                  /\ \A i \in FreeAt(d) : PredDist2(d, assoc'[d]) <= PredDist2(d, i)
             /\ assoc'[d] = 0 =>
                  \A i \in FreeAt(d) :
                      PredDist2(d, i) >= (MAX_DISTANCE * Scale) * (MAX_DISTANCE * Scale)
        /\ \A d1, d2 \in 1..Len(detections') :
             (assoc'[d1] # 0 /\ assoc'[d1] = assoc'[d2]) => d1 = d2
        \* a matched track is updated once, with the observation matched to it
        /\ \A d \in 1..Len(detections') :
             assoc'[d] # 0 =>
                 \E j \in 1..Len(tracks') :
                     /\ track_ids'[j] = track_ids[assoc'[d]]
                     /\ tracks'[j] = ObjectKalman_update(
                                         ObjectKalman_predict(tracks[assoc'[d]]),
                                         detections'[d].cx, detections'[d].cy)
        \* a track born in the frame is as its constructor left it
        /\ \A j \in 1..Len(tracks') :
             track_ids'[j] >= next_id =>
                 /\ tracks'[j].age = 0 /\ tracks'[j].missed = 0
                 /\ tracks'[j].vx = 0 /\ tracks'[j].vy = 0]_vars

\* two tracks and two observations: the first observation, as near to the one
\* track as to the other, takes the first; the second is exactly max_distance
\* from the track that is left, stays unmatched and is born as a third track
C10_Witness ==
    /\ call = "frame"
    /\ Len(detections) = 2
    /\ assoc = <<1, 0>>
    /\ Len(tracks) = 3
    /\ tracks[2].missed = 1
    /\ (detections[2].cx - tracks[2].x) * (detections[2].cx - tracks[2].x)
         + (detections[2].cy - tracks[2].y) * (detections[2].cy - tracks[2].y)
         = (MAX_DISTANCE * Scale) * (MAX_DISTANCE * Scale)
    /\ (detections[1].cx - tracks[2].x) * (detections[1].cx - tracks[2].x)
         + (detections[1].cy - tracks[2].y) * (detections[1].cy - tracks[2].y)
         < (MAX_DISTANCE * Scale) * (MAX_DISTANCE * Scale)

\* --- C11 --------------------------------------------------------------------
\* C11 as stated: the impact_point of the event check_track returns has the
\* coordinates of the first forecast point strictly inside the zone, whether
\* those coordinates are whole numbers of pixels or not.  (impact_point is in
\* pixels, the forecast in units of 1/Scale of a pixel.)
C11_Claim ==
    (call = "check_track" /\ Len(events) = 1) =>
        LET p == track_futures[1].pts[events[1].impact_frame]
        IN  /\ Inside(p)
            /\ \A t \in 1..(events[1].impact_frame - 1) : ~Inside(track_futures[1].pts[t])
            /\ events[1].impact_point[1] * Scale = p[1]
            /\ events[1].impact_point[2] * Scale = p[2]

\* --- C12 --------------------------------------------------------------------
\* the state the snapshot of the frame reports for identifier id
StateOf(id) == states'[CHOOSE j \in 1..Len(states') : states'[j].id = id]

\* C12: after every frame of the main loop the identifiers that hold a
\* predictor are exactly those of the frame's snapshot of live tracks.  A
\* track born in the frame gets a fresh predictor, which has seen this frame's
\* velocity only; a track that lived before keeps its predictor, whose history
\* is the one it had with this frame's velocity appended (capacity 8); the
\* predictor of a track pruned in the frame is deleted in the frame.
C12_Theorem ==
    [][IsFrame =>
        /\ DOMAIN predictors' = Range(track_ids')
        /\ DOMAIN predictors' = {states'[j].id : j \in 1..Len(states')}
        /\ DOMAIN predictors = Range(track_ids)
        /\ \A id \in DOMAIN predictors' :
             IF id \in DOMAIN predictors
             THEN /\ predictors'[id].vx_hist =
                        DequeAppend(predictors[id].vx_hist, StateOf(id).vx, HISTORY_LEN)
                  /\ predictors'[id].vy_hist =
                        DequeAppend(predictors[id].vy_hist, StateOf(id).vy, HISTORY_LEN)
             ELSE /\ id >= next_id /\ id < next_id'
                  /\ predictors'[id].vx_hist = <<StateOf(id).vx>>
                  /\ predictors'[id].vy_hist = <<StateOf(id).vy>>
        /\ \A id \in next_id..(next_id' - 1) : id \in DOMAIN predictors'
        /\ \A id \in DOMAIN predictors \ DOMAIN predictors' :
             /\ id \in Range(track_ids)
             /\ \E i \in 1..Len(tracks) :
                  track_ids[i] = id /\ ~MatchedNow(i) /\ tracks[i].missed + 1 >= MAX_MISSED]_vars

\* a frame that has pruned the first track and deleted its predictor, while
\* the predictor of a later track has gathered more than one sample
C12_Witness ==
    /\ call = "frame"
    /\ next_id = 2
    /\ track_ids = <<1>>
    /\ DOMAIN predictors = {1}
    /\ Len(predictors[1].vx_hist) > 1
    /\ Len(predictors[1].vx_hist) = tracks[1].age + 1

\* --- C13 --------------------------------------------------------------------
\* C13: frames counts the calls of update_and_predict made on the predictor.
\* After the n-th call each history holds min(n, 8) samples; the last is the
\* velocity just passed in and those before it are the latest samples of the
\* history before the call, in their order (so the history is always the
\* most recent min(n, 8) velocities passed, in arrival order); the x history
\* and the y history have the same length.
C13_Theorem ==
    [][call' = "update_and_predict" =>
        LET hx  == IF 0 \in DOMAIN predictors THEN predictors[0].vx_hist ELSE <<>>
            hy  == IF 0 \in DOMAIN predictors THEN predictors[0].vy_hist ELSE <<>>
            hx2 == predictors'[0].vx_hist
            hy2 == predictors'[0].vy_hist
            n   == frames'
            len == IF n < 8 THEN n ELSE 8
        IN  /\ Len(hx2) = len /\ Len(hy2) = len
            /\ Len(hx2) <= 8
            /\ Len(hx) = (IF n - 1 < 8 THEN n - 1 ELSE 8) /\ Len(hy) = Len(hx)
            /\ hx2[len] = states'[1].vx
            /\ hy2[len] = states'[1].vy
            /\ \A i \in 1..(len - 1) :
                 /\ hx2[i] = hx[Len(hx) - (len - 1) + i]
                 /\ hy2[i] = hy[Len(hy) - (len - 1) + i]]_vars

\* a ninth call: the history is full, the first sample has been evicted
C13_Witness ==
    /\ call = "update_and_predict"
    /\ frames > 8
    /\ Len(predictors[0].vx_hist) = 8
    /\ Len(predictors[0].vy_hist) = 8
    /\ predictors[0].vx_hist[1] = 6 * Scale
    /\ predictors[0].vx_hist[8] = 0
    /\ states[1].vx = 0

\* --- C14 --------------------------------------------------------------------
\* the squared distance from the position the snapshot reports for its j-th
\* track to the centre of observation d of the frame
SizeDist2(j, d) ==
    (states[j].cx - detections[d].cx) * (states[j].cx - detections[d].cx)
      + (states[j].cy - detections[d].cy) * (states[j].cy - detections[d].cy)

\* C14 as stated: in the snapshot StateEstimator.update returns, the w and h
\* of each live track are those of an observation of the frame whose centre
\* is nearest to the track's estimated position, whichever track that
\* observation was matched to; with an empty observation list, and only
\* then, the fallback size (40, 40) is reported.
C14_Claim ==
    call \in {"frame", "estimator_update"} =>
        \A j \in 1..Len(states) :
            /\ detections = <<>> => (states[j].w = 40 /\ states[j].h = 40)
            /\ detections # <<>> =>
                 \E d \in 1..Len(detections) :
                     /\ states[j].w = detections[d].w
                     /\ states[j].h = detections[d].h
                     /\ \A e \in 1..Len(detections) : SizeDist2(j, d) <= SizeDist2(j, e)

====
